---- MODULE Spec2Model ----
(***************************************************************************)
(* Lesson-plan generator (src/script.js): the click handler                *)
(* generateLessonPlan, the retrying call callGeminiWithBackoff and the UI  *)
(* helpers, as a state machine.  One record of `gens` is one activation of *)
(* callGeminiWithBackoff (its loop variables and what it has done so far). *)
(***************************************************************************)
EXTENDS Integers, Sequences, FiniteSets, TLC

VARIABLES
    promptInput,    \* promptInput.value, the topic field
    subjectInput,   \* subjectInput.value
    ui,             \* generateBtn.disabled, the hidden classes, error text, output
    trigger,        \* the latest activation of generateLessonPlan: its inputs and path
    gens            \* activations of callGeminiWithBackoff, oldest first

vars == <<promptInput, subjectInput, ui, trigger, gens>>

----------------------------------------------------------------------------
(* Bounds of the model *)

\* callers other than generateLessonPlan pass retries in -1 .. MaxRetries
MaxRetries == 2
\* at most this many unfinished activations are kept at once
MaxLive == 2

(* Program constants *)

\* retries = 3
DefaultRetries == 3
\* delay = 1000
DefaultDelay == 1000

RetriesSet == (-1) .. MaxRetries
DelaySet == {250, DefaultDelay}
FieldValues == {"", "Fractions"}

----------------------------------------------------------------------------
(* The schema's required top-level fields *)
Required == {"title", "learning_objectives", "slides", "quiz", "homework"}

(* Embedded texts the model can answer with: the empty string, text that is
   not JSON, the JSON text null, and JSON objects holding a set of fields. *)
TextEmpty == [form |-> "empty", fields |-> {}]
TextGarbage == [form |-> "garbage", fields |-> {}]
TextNull == [form |-> "null", fields |-> {}]
TextObject(F) == [form |-> "object", fields |-> F]

ObjectFieldSets == {Required, Required \ {"homework"}, Required \ {"title"}}
Texts == {TextEmpty, TextGarbage, TextNull} \cup {TextObject(F) : F \in ObjectFieldSets}

(* JavaScript values a call can yield *)
Undefined == [kind |-> "undefined", fields |-> {}]
Null == [kind |-> "null", fields |-> {}]
Object(F) == [kind |-> "object", fields |-> F]

(* Errors: what was thrown, with the HTTP status when it has one *)
NoError == [kind |-> "none", status |-> 0]
FetchRejected == [kind |-> "fetch_rejected", status |-> 0]
HttpStatusError(s) == [kind |-> "http_status", status |-> s]
BodySyntaxError == [kind |-> "body_syntax", status |-> 0]
InvalidStructure == [kind |-> "invalid_structure", status |-> 0]
TextSyntaxError == [kind |-> "text_syntax", status |-> 0]
RenderTypeError == [kind |-> "render_type", status |-> 0]

(* Transport answers: fetch rejects, or resolves with a status and a body;
   the body is unparsable, lacks the candidates/parts/text path, or holds a
   text. *)
Response(f, ok, s, b, t) == [fetch |-> f, ok |-> ok, status |-> s, body |-> b, text |-> t]
Rejected == Response("rejected", FALSE, 0, "none", TextEmpty)
HttpFailure == Response("resolved", FALSE, 500, "none", TextEmpty)
BadBody == Response("resolved", TRUE, 200, "unparsable", TextEmpty)
NoTextPath == Response("resolved", TRUE, 200, "no_path", TextEmpty)
WithText(t) == Response("resolved", TRUE, 200, "text", t)
Responses == {Rejected, HttpFailure, BadBody, NoTextPath} \cup {WithText(t) : t \in Texts}

----------------------------------------------------------------------------
(* JSON.parse of the embedded text: throws on text that is not JSON *)
JSONParse(t) ==
    CASE t.form = "null" -> [threw |-> FALSE, value |-> Null]
      [] t.form = "object" -> [threw |-> FALSE, value |-> Object(t.fields)]
      [] OTHER -> [threw |-> TRUE, value |-> Undefined]

(* if (jsonText): the empty string and undefined are falsy *)
TextTruthy(r) == r.body = "text" /\ r.text.form # "empty"

(* variant: if (lessonData !== undefined) *)
TruthyUnlessUndefined(v) == v.kind # "undefined"

(* if (lessonData): undefined and null are falsy, every object is truthy *)
Truthy(v) == v.kind = "object"

(* The body of the try block for one answer: what it throws or returns *)
Threw(e) == [threw |-> TRUE, error |-> e, value |-> Undefined]
Returned(v) == [threw |-> FALSE, error |-> NoError, value |-> v]

Attempt(r) ==
    IF r.fetch = "rejected" THEN Threw(FetchRejected)
    ELSE IF ~r.ok THEN Threw(HttpStatusError(r.status))
    ELSE IF r.body = "unparsable" THEN Threw(BodySyntaxError)
    ELSE IF TextTruthy(r)
         THEN IF JSONParse(r.text).threw
              THEN Threw(TextSyntaxError)
              ELSE Returned(JSONParse(r.text).value)
         ELSE Threw(InvalidStructure)

----------------------------------------------------------------------------
(* callGeminiWithBackoff *)

Return(g, v) == [g EXCEPT !.status = "returned", !.value = v]
Throw(g, e) == [g EXCEPT !.status = "threw", !.error = e]

\* await fetch(apiUrl, ...): one more request is outstanding
IssueFetch(g) == [g EXCEPT !.outstanding = @ + 1, !.calls = @ + 1]

\* for (...; i < retries; ...) and the fall-through after the loop
LoopHead(g) == IF g.i < g.retries THEN IssueFetch(g) ELSE Return(g, Undefined)

\* variant: the comparison is off by one, i === retries
IsLastAttemptOffByOne(g) == g.i = g.retries

\* i === retries - 1
IsLastAttempt(g) == g.i = g.retries - 1

\* variant: the delay is not doubled
NextDelayConstant(d) == d

\* delay *= 2
NextDelay(d) == d * 2

\* variant: the promise awaited is never resolved (no timer is set)
SleepNeverResolved(g) == g

\* await new Promise(resolve => setTimeout(resolve, delay))
Sleep(g) == [g EXCEPT !.timer = TRUE]

\* variant: every failure is rethrown at once, no attempt is retried
CatchAlwaysThrows(g, e) == Throw(g, e)

\* variant: the promise of the timer is not awaited, the loop goes on at once
CatchNoAwait(g, e) ==
    IF IsLastAttempt(g) THEN Throw(g, e)
    ELSE LoopHead([g EXCEPT !.timer = TRUE, !.delay = NextDelay(g.delay), !.i = @ + 1])

\* the catch block up to its await
Catch(g, e) == IF IsLastAttempt(g) THEN Throw(g, e) ELSE Sleep(g)

\* the timer fired: the rest of the catch block, i++, and the loop again
AfterSleep(g) ==
    LoopHead([g EXCEPT !.timer = FALSE,
                       !.delays = Append(@, g.delay),
                       !.delay = NextDelay(g.delay),
                       !.i = @ + 1])

\* the answer to the outstanding fetch arrives
OnResponse(g, r) ==
    LET g1 == [g EXCEPT !.outstanding = @ - 1, !.outcomes = Append(@, r)]
        a == Attempt(r)
    IN IF a.threw THEN Catch(g1, a.error) ELSE Return(g1, a.value)

\* the call itself, run to its first await (or to its return)
callGeminiWithBackoff(caller, retries, delay) ==
    LoopHead([caller |-> caller, retries |-> retries, delay0 |-> delay,
              delay |-> delay, i |-> 0, outstanding |-> 0, timer |-> FALSE,
              status |-> "running", value |-> Undefined, error |-> NoError,
              calls |-> 0, delays |-> <<>>, outcomes |-> <<>>, handled |-> FALSE])

----------------------------------------------------------------------------
(* UI helpers *)

InputMsg == [msg |-> "Please enter a lesson topic and subject.", error |-> NoError]
EmptyMsg == [msg |-> "The model returned an empty response.", error |-> NoError]
ExceptionMsg(e) == [msg |-> "An error occurred", error |-> e]
NoMsg == [msg |-> "", error |-> NoError]

\* variant: the button is not disabled
startLoadingStateButtonEnabled(u) ==
    [u EXCEPT !.output = "", !.errorHidden = TRUE, !.loadingHidden = FALSE]

startLoadingState(u) ==
    [u EXCEPT !.output = "", !.errorHidden = TRUE, !.loadingHidden = FALSE,
              !.btnDisabled = TRUE]

endLoadingState(u) == [u EXCEPT !.loadingHidden = TRUE, !.btnDisabled = FALSE]

showError(u, m) == [u EXCEPT !.errorText = m, !.errorHidden = FALSE]

\* renderObjectives/renderSlides/renderQuiz call .map on their argument and
\* renderHomework reads homework.title: an absent field throws a TypeError
\* before outputDiv.innerHTML is assigned; an absent title prints "undefined"
RenderThrows(v) == ~({"learning_objectives", "slides", "quiz", "homework"} \subseteq v.fields)

\* the try block after the await, with its catch
AfterCall(u, g) ==
    IF g.status = "threw" THEN showError(u, ExceptionMsg(g.error))
    ELSE IF Truthy(g.value)
         THEN IF RenderThrows(g.value)
              THEN showError(u, ExceptionMsg(RenderTypeError))
              ELSE [u EXCEPT !.output = "rendered"]
         ELSE showError(u, EmptyMsg)

\* variant: endLoadingState ends the try block instead of sitting in finally
SettleWithoutFinally(u, g) ==
    IF g.status = "threw" \/ (Truthy(g.value) /\ RenderThrows(g.value))
    THEN AfterCall(u, g)
    ELSE endLoadingState(AfterCall(u, g))

\* try / catch / finally of generateLessonPlan once the awaited call settled
Settle(u, g) == endLoadingState(AfterCall(u, g))

\* variant: only the topic is checked
InputMissingTopicOnly(t, s) == t = ""

\* if (!topic || !subject)
InputMissing(t, s) == t = "" \/ s = ""

----------------------------------------------------------------------------
(* Which activations are over *)

Settled(g) == g.status # "running"
Finished(g) == Settled(g) /\ (g.caller = "ui" => g.handled)
Unfinished(s) == SelectSeq(s, LAMBDA g : ~Finished(g))
InFlightUI == {k \in DOMAIN gens : gens[k].caller = "ui" /\ ~gens[k].handled}

----------------------------------------------------------------------------
Init ==
    /\ promptInput = ""
    /\ subjectInput = ""
    /\ ui = [btnDisabled |-> FALSE, loadingHidden |-> TRUE, errorHidden |-> TRUE,
             errorText |-> NoMsg, output |-> ""]
    /\ trigger = [topic |-> "", subject |-> "", path |-> "none"]
    /\ gens = <<>>

\* the user edits the topic and subject fields
Edit(t, s) ==
    /\ promptInput' = t
    /\ subjectInput' = s
    /\ UNCHANGED <<ui, trigger, gens>>

\* a click on the generate button: generateLessonPlan up to its await.
\* A disabled button delivers no click.
Click ==
    /\ ~ui.btnDisabled
    /\ \A k \in DOMAIN gens : gens[k].caller = "direct" => Settled(gens[k])
    /\ Len(Unfinished(gens)) < MaxLive
    /\ IF InputMissing(promptInput, subjectInput)
       THEN /\ ui' = showError(ui, InputMsg)
            /\ trigger' = [topic |-> promptInput, subject |-> subjectInput,
                           path |-> "rejected"]
            /\ UNCHANGED gens
       ELSE /\ ui' = startLoadingState(ui)
            /\ trigger' = [topic |-> promptInput, subject |-> subjectInput,
                           path |-> "started"]
            /\ gens' = Append(Unfinished(gens),
                              callGeminiWithBackoff("ui", DefaultRetries, DefaultDelay))
    /\ UNCHANGED <<promptInput, subjectInput>>

\* another caller invokes callGeminiWithBackoff(payload, r, d), one call at a time
DirectCall(r, d) ==
    /\ \A k \in DOMAIN gens : Finished(gens[k])
    /\ gens' = <<callGeminiWithBackoff("direct", r, d)>>
    /\ UNCHANGED <<promptInput, subjectInput, ui, trigger>>

\* the transport answers an outstanding request of activation k
Respond(k, r) ==
    /\ gens[k].outstanding > 0
    /\ gens' = [gens EXCEPT ![k] = OnResponse(@, r)]
    /\ UNCHANGED <<promptInput, subjectInput, ui, trigger>>

\* the backoff timer of activation k fires
TimerFire(k) ==
    /\ gens[k].timer
    /\ gens' = [gens EXCEPT ![k] = AfterSleep(@)]
    /\ UNCHANGED <<promptInput, subjectInput, ui, trigger>>

\* generateLessonPlan resumes after its await
Resume(k) ==
    /\ gens[k].caller = "ui"
    /\ Settled(gens[k])
    /\ ~gens[k].handled
    /\ ui' = Settle(ui, gens[k])
    /\ gens' = [gens EXCEPT ![k].handled = TRUE]
    /\ UNCHANGED <<promptInput, subjectInput, trigger>>

Next ==
    \/ \E t \in FieldValues, s \in FieldValues : Edit(t, s)
    \/ Click
    \/ \E r \in RetriesSet, d \in DelaySet : DirectCall(r, d)
    \/ \E k \in DOMAIN gens, r \in Responses : Respond(k, r)
    \/ \E k \in DOMAIN gens : TimerFire(k)
    \/ \E k \in DOMAIN gens : Resume(k)

Spec == Init /\ [][Next]_vars

\* every request is eventually answered and every timer eventually fires
FairSpec ==
    /\ Spec
    /\ WF_vars(\E k \in DOMAIN gens, r \in Responses : Respond(k, r))
    /\ WF_vars(\E k \in DOMAIN gens : TimerFire(k))

----------------------------------------------------------------------------
(* Vocabulary of the properties *)

\* a transport failure: the request was rejected or answered with a non-success status
TransportFails(r) == r.fetch = "rejected" \/ ~r.ok
\* an envelope whose text is a JSON object holding every required field
ValidEnvelope(r) == r = WithText(TextObject(Required))
\* an envelope whose text is a JSON object lacking a required field
LacksRequiredField(r) ==
    /\ r.fetch = "resolved" /\ r.ok /\ r.body = "text"
    /\ r.text.form = "object" /\ ~(Required \subseteq r.text.fields)
\* an envelope whose text is JSON for a falsy value
DecodesFalsy(r) == r = WithText(TextNull)
AllFailed(g) == \A j \in DOMAIN g.outcomes : Attempt(g.outcomes[j]).threw
RetryableKinds ==
    {"fetch_rejected", "http_status", "body_syntax", "invalid_structure", "text_syntax"}
ExpectedDelays(g, n) == [j \in 1 .. n |-> g.delay0 * 2 ^ (j - 1)]

----------------------------------------------------------------------------
\* C1: when the first N-1 answers are transport failures and answer N is a
\* valid envelope (N <= retries), the call has returned the decoded plan, has
\* made exactly N transport calls, none is outstanding or scheduled after it,
\* and the delay waited before call k is delay0 * 2^(k-2) for 2 <= k <= N.
C1_SuccessAfterBackoff ==
    \A k \in DOMAIN gens :
        LET g == gens[k] IN
        \A N \in 1 .. g.retries :
            ( /\ Len(g.outcomes) >= N
              /\ \A j \in 1 .. N - 1 : TransportFails(g.outcomes[j])
              /\ ValidEnvelope(g.outcomes[N]) )
            => /\ g.status = "returned"
               /\ g.value = Object(Required)
               /\ g.calls = N
               /\ Len(g.outcomes) = N
               /\ g.outstanding = 0 /\ ~g.timer
               /\ g.delays = ExpectedDelays(g, N - 1)

C1_Witness ==
    \E k \in DOMAIN gens :
        /\ gens[k].retries = 3 /\ gens[k].calls = 3
        /\ gens[k].status = "returned" /\ gens[k].value = Object(Required)
        /\ TransportFails(gens[k].outcomes[1]) /\ TransportFails(gens[k].outcomes[2])
        /\ gens[k].delays = <<1000, 2000>>

C3_MissingFieldRetried ==
    \A k \in DOMAIN gens :
        LET g == gens[k] IN
        \A j \in DOMAIN g.outcomes :
            LacksRequiredField(g.outcomes[j])
            => /\ g.status # "returned"
               /\ (j = g.retries => g.status = "threw")
               /\ (j < g.retries => (g.timer \/ g.calls > j))

\* C4: when the latest trigger of generateLessonPlan read an empty topic or
\* an empty subject, it took the rejecting path: the input error is shown, the
\* loading state was not entered, and no activation of the call exists for it
\* (no request outstanding, no timer pending, nothing awaiting the handler).
C4_EmptyInputNoCall ==
    (trigger.path # "none" /\ (trigger.topic = "" \/ trigger.subject = ""))
    => /\ trigger.path = "rejected"
       /\ ui.errorText = InputMsg /\ ~ui.errorHidden
       /\ ui.loadingHidden /\ ~ui.btnDisabled
       /\ \A k \in DOMAIN gens :
              gens[k].caller = "ui"
              => gens[k].handled /\ gens[k].outstanding = 0 /\ ~gens[k].timer

C4_Witness ==
    /\ trigger.path = "rejected" /\ trigger.topic = "Fractions" /\ trigger.subject = ""
    /\ ui.errorText = InputMsg
    /\ \E k \in DOMAIN gens : gens[k].caller = "ui" /\ gens[k].calls = 3

\* C5: under the fairness of FairSpec (requests are answered, timers fire),
\* whenever a call is running, eventually no call is running.
C5_Terminates ==
    (\E k \in DOMAIN gens : ~Settled(gens[k])) ~> (\A k \in DOMAIN gens : Settled(gens[k]))

C5_Witness ==
    \E k \in DOMAIN gens :
        /\ gens[k].retries = 3 /\ gens[k].status = "threw" /\ gens[k].calls = 3
        /\ Len(gens[k].delays) = 2

\* C6 as stated: no retryable error leaves the call as itself.
C6_Original ==
    \A k \in DOMAIN gens :
        gens[k].status = "threw" => gens[k].error.kind \notin RetryableKinds

\* C6 (amended): an error leaves the call only from the last attempt, after
\* retries failed attempts, and it is the error of that attempt itself,
\* unwrapped and without an attempt count; failures of earlier attempts never
\* end the call.  generateLessonPlan catches it and shows it, with nothing
\* rendered, for as long as that trigger is the latest one.
C6_LastErrorRethrown ==
    \A k \in DOMAIN gens :
        LET g == gens[k] IN
        /\ g.status = "threw"
           => /\ g.i = g.retries - 1
              /\ g.calls = g.retries
              /\ Len(g.outcomes) = g.retries
              /\ AllFailed(g)
              /\ g.error = Attempt(g.outcomes[g.retries]).error
              /\ g.error.kind \in RetryableKinds
        /\ (g.status = "threw" /\ g.caller = "ui" /\ g.handled /\ trigger.path = "started")
           => /\ ui.errorText = ExceptionMsg(g.error)
              /\ ~ui.errorHidden
              /\ ui.output = ""

C6_Witness ==
    \E k \in DOMAIN gens :
        /\ gens[k].caller = "ui" /\ gens[k].handled /\ gens[k].status = "threw"
        /\ gens[k].error = TextSyntaxError
        /\ gens[k].outcomes[1] = HttpFailure
        /\ ui.errorText = ExceptionMsg(TextSyntaxError)

\* C7: a call has at most one request outstanding, and none while its backoff
\* timer is pending; every call made is either answered or the one
\* outstanding; every answered attempt before the latest call failed; call
\* k+1 is preceded by exactly k elapsed delays; and a call that is over has
\* no request outstanding and no timer pending (no delay after the last
\* failed attempt).
C7_OneRequestAtATime ==
    \A k \in DOMAIN gens :
        LET g == gens[k] IN
        /\ g.outstanding \in {0, 1}
        /\ ~(g.outstanding = 1 /\ g.timer)
        /\ g.calls = Len(g.outcomes) + g.outstanding
        /\ Len(g.delays) = (IF g.calls = 0 THEN 0 ELSE g.calls - 1)
        /\ \A j \in 1 .. g.calls - 1 : Attempt(g.outcomes[j]).threw
        /\ g.timer => Attempt(g.outcomes[g.calls]).threw
        /\ Settled(g) => (g.outstanding = 0 /\ ~g.timer)

C7_Witness ==
    \E k \in DOMAIN gens :
        /\ gens[k].calls = 3 /\ gens[k].outstanding = 1
        /\ Len(gens[k].delays) = 2 /\ ~gens[k].timer

\* C8: for every generation started by a valid trigger, the loading indicator
\* is shown and the button disabled from the trigger until the handler has
\* resumed (so during every transport call and delay), and the indicator is
\* hidden and the button enabled once the handler has resumed, whatever the
\* call yielded and whether or not rendering threw.
C8_LoadingStateBracketsCall ==
    \A k \in DOMAIN gens :
        gens[k].caller = "ui"
        => IF gens[k].handled
           THEN ui.loadingHidden /\ ~ui.btnDisabled
           ELSE ~ui.loadingHidden /\ ui.btnDisabled

C8_Witness ==
    \E k \in DOMAIN gens :
        /\ gens[k].caller = "ui" /\ gens[k].handled
        /\ gens[k].status = "returned" /\ RenderThrows(gens[k].value)
        /\ gens[k].value.kind = "object"
        /\ ui.errorText = ExceptionMsg(RenderTypeError)
        /\ ui.loadingHidden /\ ~ui.btnDisabled

\* C9: with clicks delivered only to an enabled button, at most one
\* generation is in flight, the button is disabled whenever one is (through
\* every retry and delay), it is disabled only then, and after a rejected
\* trigger it is enabled.
C9_SingleGeneration ==
    /\ Cardinality(InFlightUI) <= 1
    /\ ui.btnDisabled <=> InFlightUI # {}
    /\ trigger.path = "rejected" => ~ui.btnDisabled
    /\ Cardinality({k \in DOMAIN gens : gens[k].caller = "ui" /\ ~Settled(gens[k])}) <= 1

C9_Witness ==
    \E k \in DOMAIN gens :
        /\ gens[k].caller = "ui" /\ gens[k].timer /\ gens[k].i = 1
        /\ ui.btnDisabled

\* C10: a call can end without throwing and without a plan.  An answer whose
\* text decodes to a falsy value ends the call on that attempt with that
\* value (no retry); retries <= 0 ends it with undefined and no transport
\* call.  The handler's test takes undefined as falsy, and having resumed on
\* a falsy value it has rendered nothing and shows the empty-response error,
\* for as long as that trigger is the latest one.
C10_EmptyResult ==
    /\ ~Truthy(Undefined)
    /\ \A k \in DOMAIN gens :
        LET g == gens[k] IN
        /\ g.retries <= 0
           => (g.status = "returned" /\ g.value = Undefined /\ g.calls = 0)
        /\ \A j \in DOMAIN g.outcomes :
               DecodesFalsy(g.outcomes[j])
               => /\ g.status = "returned" /\ g.value = Null
                  /\ g.calls = j /\ Len(g.outcomes) = j
                  /\ g.outstanding = 0 /\ ~g.timer
        /\ (g.caller = "ui" /\ g.handled /\ g.status = "returned"
                /\ g.value \in {Null, Undefined} /\ trigger.path = "started")
           => (ui.output = "" /\ ui.errorText = EmptyMsg /\ ~ui.errorHidden)

C10_Witness ==
    \E k \in DOMAIN gens :
        /\ gens[k].caller = "ui" /\ gens[k].handled
        /\ gens[k].status = "returned" /\ gens[k].value = Null /\ gens[k].calls = 2
        /\ ui.errorText = EmptyMsg /\ ui.output = ""

C10_WitnessNoAttempt ==
    \E k \in DOMAIN gens :
        /\ gens[k].retries = 0 /\ gens[k].status = "returned"
        /\ gens[k].value = Undefined /\ gens[k].calls = 0

====
